---- MODULE Spec2Model ----
(***************************************************************************)
(* Paletter: the persisted palette state of App (color list, shade list,   *)
(* background color, format rotation, swap flag), the hooks that drive it  *)
(* (useList, useValueRotation, useLocalStore) and localStorage.            *)
(*                                                                         *)
(* Two revisions of the script are modelled side by side; `variant` says   *)
(* which one a behaviour runs:                                             *)
(*   "script"  - src/src/script.jsx                                        *)
(*   "part000" - src/unnamed/part_000                                      *)
(***************************************************************************)
EXTENDS Integers, Sequences, FiniteSets, TLC

VARIABLES
    variant,          \* which revision of the script runs
    storage,          \* localStorage: key -> [present, text]
    phase,            \* "closed" | "running" | "crashed"
    error,            \* the exception that unmounted the tree, or "none"
    colors,           \* useList state of App, line 222
    shades,           \* useList state of App, line 226
    backgroundColor,  \* useState of App, line 231
    index,            \* useState of useValueRotation, line 69
    swapColors,       \* useState of App, line 244
    colorTable,       \* the value useMemo holds for App, line 247
    pending,          \* keys whose useEffect write is scheduled, not yet run
    listOps,          \* list mutations so far (bounded by MaxListOps)
    rotated,          \* observer: the active formats since the last mount
    ulist,            \* a useList instance driven with arbitrary arguments
    ucall,            \* the last call made on that instance
    shaded,           \* the last call of getShadedColor made on its own
    contrasting       \* the last call of useContrastingColor made on its own

vars == <<variant, storage, phase, error, colors, shades, backgroundColor,
          index, swapColors, colorTable, pending, listOps, rotated, ulist, ucall,
          shaded, contrasting>>

appVars == <<variant, storage, phase, error, colors, shades, backgroundColor,
             index, swapColors, colorTable, pending, listOps, rotated>>

\* the functions and the hook driven outside App
unitVars == <<ulist, ucall, shaded, contrasting>>

(***************************************************************************)
(* Bounds                                                                  *)
(***************************************************************************)
\* list mutations (push/update/remove on either list) in one behaviour
MaxListOps == 1
\* longest list the free-standing useList instance grows to
MaxLen == 3

\* how far below 0 and above 100 the percents handed to getShadedColor go
ShadeOvershoot == 10

(***************************************************************************)
(* JavaScript values.  Every value is a record of the same shape so that   *)
(* values of different JS types can be compared.                           *)
(***************************************************************************)
Undefined == [t |-> "undefined", s |-> "", n |-> 0, a |-> <<>>]

Null == [t |-> "null", s |-> "", n |-> 0, a |-> <<>>]

Str(s) == [t |-> "string", s |-> s, n |-> 0, a |-> <<>>]

Num(n) == [t |-> "number", s |-> "", n |-> n, a |-> <<>>]

NaN == [t |-> "number", s |-> "NaN", n |-> 0, a |-> <<>>]

Bool(b) == [t |-> "boolean", s |-> IF b THEN "true" ELSE "false", n |-> 0, a |-> <<>>]

Arr(a) == [t |-> "array", s |-> "", n |-> 0, a |-> a]

\* state of a hook whose useState has not run (tree not mounted)
Unset == [t |-> "unset", s |-> "", n |-> 0, a |-> <<>>]

\* x ?? y
Nullish(x, y) == IF x.t \in {"undefined", "null"} THEN y ELSE x

\* the truthiness of a value (used by `storedFormat ? ... : 0`)
Truthy(x) ==
    CASE x.t \in {"undefined", "null"} -> FALSE
      [] x.t = "string" -> x.s # ""
      [] x.t = "number" -> ~(x.s = "NaN" \/ x.n = 0)
      [] x.t = "boolean" -> x.s = "true"
      [] OTHER -> TRUE

(***************************************************************************)
(* JSON text, as a sequence of tokens.  The empty sequence is the empty    *)
(* string.                                                                 *)
(***************************************************************************)
Tok(k, s, n) == [k |-> k, s |-> s, n |-> n]

TLBracket == Tok("[", "", 0)

TRBracket == Tok("]", "", 0)

TComma == Tok(",", "", 0)

TNull == Tok("null", "", 0)

TTrue == Tok("true", "", 0)

TFalse == Tok("false", "", 0)

\* the text "undefined": what String(undefined) gives; not JSON
TUndefined == Tok("ident", "undefined", 0)

RECURSIVE StringifyElems(_)
\* the elements of an array, comma separated; undefined and NaN become null
StringifyElems(a) ==
    IF a = <<>> THEN <<>>
    ELSE LET x == Head(a)
             one == CASE x.t = "string" -> <<Tok("string", x.s, 0)>>
                      [] x.t = "number" ->
                           IF x.s = "NaN" THEN <<TNull>> ELSE <<Tok("number", "", x.n)>>
                      [] x.t = "boolean" -> IF x.s = "true" THEN <<TTrue>> ELSE <<TFalse>>
                      [] x.t = "array" -> <<TLBracket>> \o StringifyElems(x.a) \o <<TRBracket>>
                      [] OTHER -> <<TNull>>
         IN  IF Tail(a) = <<>> THEN one
             ELSE one \o <<TComma>> \o StringifyElems(Tail(a))

\* JSON.stringify(v) returns undefined (no text) for undefined
StringifyIsUndefined(v) == v.t = "undefined"

\* JSON.stringify(v), for a v that is not undefined
JSONStringify(v) ==
    CASE v.t = "array" -> <<TLBracket>> \o StringifyElems(v.a) \o <<TRBracket>>
      [] v.t = "null" -> <<TNull>>
      [] OTHER -> StringifyElems(<<v>>)

\* localStorage.setItem(key, JSON.stringify(value)): the argument is turned
\* into a string, so undefined is stored as the text "undefined"
SetItemText(v) == IF StringifyIsUndefined(v) THEN <<TUndefined>> ELSE JSONStringify(v)

RECURSIVE ValueEnd(_, _)
RECURSIVE ElemsEnd(_, _)
\* the position after the JSON value that starts at token p of text, 0 when
\* no JSON value starts there
ValueEnd(text, p) ==
    IF p > Len(text) THEN 0
    ELSE CASE text[p].k \in {"string", "number", "null", "true", "false"} -> p + 1
           [] text[p].k = "[" ->
                IF p + 1 <= Len(text) /\ text[p + 1].k = "]" THEN p + 2
                ELSE ElemsEnd(text, p + 1)
           [] OTHER -> 0

\* the position after the "]" closing the elements that start at token p
ElemsEnd(text, p) ==
    LET e == ValueEnd(text, p) IN
    IF e = 0 \/ e > Len(text) THEN 0
    ELSE IF text[e].k = "]" THEN e + 1
         ELSE IF text[e].k = "," THEN ElemsEnd(text, e + 1)
              ELSE 0

\* JSON.parse(text) throws a SyntaxError: text is not exactly one JSON value
JSONThrows(text) == ValueEnd(text, 1) # Len(text) + 1

RECURSIVE ValueAtTok(_, _)
RECURSIVE ElemsAtTok(_, _, _)
\* the value of the JSON value that starts at token p of a text that parses
ValueAtTok(text, p) ==
    LET tk == text[p] IN
    CASE tk.k = "string" -> Str(tk.s)
      [] tk.k = "number" -> Num(tk.n)
      [] tk.k = "null" -> Null
      [] tk.k = "true" -> Bool(TRUE)
      [] tk.k = "false" -> Bool(FALSE)
      [] OTHER -> IF text[p + 1].k = "]" THEN Arr(<<>>)
                  ELSE Arr(ElemsAtTok(text, p + 1, ValueEnd(text, p) - 1))

\* the elements that start at token p and end before the "]" at token q
ElemsAtTok(text, p, q) ==
    LET e == ValueEnd(text, p) IN
    IF e >= q THEN <<ValueAtTok(text, p)>>
    ELSE <<ValueAtTok(text, p)>> \o ElemsAtTok(text, e + 1, q)

\* JSON.parse(text): [ok, v]; ok = FALSE is the SyntaxError it throws
JSONParse(text) ==
    IF JSONThrows(text) THEN [ok |-> FALSE, v |-> Undefined]
    ELSE [ok |-> TRUE, v |-> ValueAtTok(text, 1)]

(***************************************************************************)
(* Program constants                                                       *)
(***************************************************************************)
Variants == {"script", "part000"}

\* initialColors of each revision
initialColors(v) ==
    IF v = "script"
    THEN <<Str("lch(50 92 52)"), Str("lch(50 91 95)"), Str("lch(50 110 130)"),
           Str("lch(50 50 270)"), Str("lch(50 0 0)")>>
    ELSE <<Str("#ff6600"), Str("#ffee00"), Str("#33ff00"), Str("#3399ff"),
           Str("#999999")>>

initialShades == <<Num(5), Num(25), Num(50), Num(75), Num(95)>>

availableFormats == <<"hex", "rgb", "hsl", "lch">>

\* the keys App binds with useLocalStore, in the order of its hook calls
Keys(v) ==
    IF v = "script"
    THEN <<"colors", "shades", "backgroundColor", "format", "swap-colors">>
    ELSE <<"colors", "shades", "backgroundColor", "format">>

AllKeys == {"colors", "shades", "backgroundColor", "format", "swap-colors"}

KeySet(v) == {Keys(v)[i] : i \in 1..Len(Keys(v))}

(***************************************************************************)
(* Inputs the user interface delivers                                      *)
(***************************************************************************)
\* colors.push("red")
PushedColor == Str("red")

\* shades.push(100)
PushedShade == Num(100)

\* what ColorInput's onChange hands to colors.update: a serialized LCH color
EditedColors == {Str("lch(60 92 52)")}

\* what ColorInput's onChange hands to setBackgroundColor
EditedBackgrounds == {Str("lch(90 0 0)")}

\* e.target.valueAsNumber of a shade input: a number, or NaN when emptied
ShadeInputs == {Num(0), NaN}

(***************************************************************************)
(* getShadedColor.  An LCH color is the triple of its coordinates.  The    *)
(* color handed in has whole coordinates and the percent s is whole; the   *)
(* color handed back is in hundredths of a unit, in which                  *)
(* s * (0.5 + l / 100) and c * (1 - |s - 50| / 50) are whole numbers.      *)
(***************************************************************************)
Lch(l, c, h) == [l |-> l, c |-> c, h |-> h]

\* Math.abs
Abs(x) == IF x < 0 THEN -x ELSE x

\* c: (c) => c * (1 - Math.abs(s - 50) / 100): chroma fading half as fast
GetShadedColorSlowFade(v, color, s) ==
    Lch(IF v = "script" THEN s * (50 + color.l) ELSE 100 * s,
        color.c * (100 - Abs(s - 50)),
        100 * color.h)

\* l: s - 50 + l: the lightness shifted by the distance of s from 50
GetShadedColorShift(v, color, s) ==
    Lch(IF v = "script" THEN 100 * (s - 50 + color.l) ELSE 100 * s,
        2 * color.c * (50 - Abs(s - 50)),
        100 * color.h)

\* new Color(color).to("lch").set({l: ..., c: ...}); the hue is left alone
\*   script.jsx  l: (l) => s * (0.5 + l / 100)
\*   part_000    l: shade
\*   both        c: (c) => c * (1 - Math.abs(s - 50) / 50)
GetShadedColor(v, color, s) ==
    Lch(IF v = "script" THEN s * (50 + color.l) ELSE 100 * s,
        2 * color.c * (50 - Abs(s - 50)),
        100 * color.h)

\* getShadedColor(color, shade) as a cell of the table: the Color built
\* from this color string and this shade
ShadedColor(color, shade) == [color |-> color, shade |-> shade]

(***************************************************************************)
(* useContrastingColor.  A color is seen through its relative luminance,   *)
(* in thousandths; a contrast ratio is kept as numerator and denominator.  *)
(***************************************************************************)
Black == 0

White == 1000

\* the 4.5 of useContrastingColor, in tenths
Threshold == 45

\* Color.contrast(other, "WCAG21"): (lighter + 0.05) / (darker + 0.05)
Contrast(y1, y2) ==
    [n |-> (IF y1 > y2 THEN y1 ELSE y2) + 50,
     d |-> (IF y1 > y2 THEN y2 ELSE y1) + 50]

\* ratio > tenths / 10
Above(ratio, tenths) == 10 * ratio.n > tenths * ratio.d

\* contrast("black", "WCAG21") >= 4.5 ? "black" : "white"
UseContrastingColorInclusive(background) ==
    IF 10 * Contrast(background, Black).n >= Threshold * Contrast(background, Black).d
    THEN "black" ELSE "white"

\* contrast("black", "WCAG21") > 7 ? "black" : "white": the AAA line
UseContrastingColorAAA(background) ==
    IF Above(Contrast(background, Black), 70) THEN "black" ELSE "white"

\* new Color(backgroundColor).contrast("black", "WCAG21") > 4.5 ? "black" : "white"
UseContrastingColor(background) ==
    IF Above(Contrast(background, Black), Threshold) THEN "black" ELSE "white"

(***************************************************************************)
(* useValueRotation                                                        *)
(***************************************************************************)
\* values[index], with JavaScript's 0-based index; undefined off the ends
ValueAt(values, i) ==
    IF i \in 0..(Len(values) - 1) THEN Str(values[i + 1]) ELSE Undefined

\* values.indexOf(x): strict equality, -1 when not found
IndexOf(values, x) ==
    IF x.t = "string" /\ \E i \in 1..Len(values) : values[i] = x.s
    THEN (CHOOSE i \in 1..Len(values) : values[i] = x.s) - 1
    ELSE -1

\* a rotation that stops at the last value instead of wrapping
NextIndexSticks(values, i) == IF i + 1 < Len(values) THEN i + 1 ELSE i

\* the updater of setIndex in rotate(); i + 1 >= 0 for every index the hook holds
NextIndex(values, i) == (i + 1) % Len(values)

(***************************************************************************)
(* useList                                                                 *)
(***************************************************************************)
\* setList((list) => [value, ...list]): the item put first
ListPushFront(list, value) == <<value>> \o list

\* [...list, value]
ListPush(list, value) == Append(list, value)

\* list.map((item, id) => (id === target ? value : item)), target 0-based
ListUpdate(list, target, value) ==
    [id \in 1..Len(list) |-> IF id - 1 = target THEN value ELSE list[id]]

RECURSIVE FilterFrom(_, _, _)
\* the items of list from 0-based position id on, without position target
FilterFrom(list, id, target) ==
    IF id >= Len(list) THEN <<>>
    ELSE (IF id # target THEN <<list[id + 1]>> ELSE <<>>)
         \o FilterFrom(list, id + 1, target)

\* list.splice(target, 1): a negative target counts from the end
ListRemoveSplice(list, target) ==
    FilterFrom(list, 0, IF target < 0 THEN Len(list) + target ELSE target)

\* list.filter((item) => item !== list[target]): removal by value
ListRemoveByValue(list, target) ==
    IF target \in 0..(Len(list) - 1)
    THEN SelectSeq(list, LAMBDA item : item # list[target + 1])
    ELSE list

\* list.filter((_, id) => id !== target), target 0-based
ListRemove(list, target) == FilterFrom(list, 0, target)

(***************************************************************************)
(* useLocalStore                                                           *)
(***************************************************************************)
Absent == [present |-> FALSE, text |-> <<>>]

Stored(text) == [present |-> TRUE, text |-> text]

\* storedValue is truthy: the key is present and its text is not ""
HasStoredValue(st, key) == st[key].present /\ st[key].text # <<>>

\* JSON.parse(storedValue) throws
LocalStoreThrows(st, key) ==
    HasStoredValue(st, key) /\ JSONThrows(st[key].text)

\* storedValue ? JSON.parse(storedValue) : undefined
LocalStoreValue(st, key) ==
    IF HasStoredValue(st, key) THEN JSONParse(st[key].text).v ELSE Undefined

(***************************************************************************)
(* App: the state each hook call of the first render initialises           *)
(***************************************************************************)
\* the initialIndex App passes to useValueRotation
InitialIndex(v, storedFormat) ==
    IF v = "script"
    THEN (IF Truthy(storedFormat) THEN IndexOf(availableFormats, storedFormat) ELSE 0)
    ELSE IndexOf(availableFormats, storedFormat)

\* storedColors?.length ? storedColors : initialColors
InitialColorsNonEmpty(v, st) ==
    IF LocalStoreValue(st, "colors").a # <<>>
    THEN LocalStoreValue(st, "colors") ELSE Arr(initialColors(v))

\* useList(storedColors ?? initialColors)
InitialColors(v, st) == Nullish(LocalStoreValue(st, "colors"), Arr(initialColors(v)))

\* useList(storedShades ?? initialShades)
InitialShades(st) == Nullish(LocalStoreValue(st, "shades"), Arr(initialShades))

\* useState(storedBackgroundColor ?? "white")
InitialBackground(st) == Nullish(LocalStoreValue(st, "backgroundColor"), Str("white"))

\* useState(storedSwapColors ?? false)
InitialSwap(st) == Nullish(LocalStoreValue(st, "swap-colors"), Bool(FALSE))

\* position of key among the hook calls of revision v, 0 if v has no such hook
KeyPos(v, key) ==
    IF key \in KeySet(v) THEN CHOOSE i \in 1..Len(Keys(v)) : Keys(v)[i] = key ELSE 0

RECURSIVE FirstThrow(_, _, _)
\* position, from i on, of the first useLocalStore call whose JSON.parse throws
FirstThrow(v, st, i) ==
    IF i > Len(Keys(v)) THEN 0
    ELSE IF LocalStoreThrows(st, Keys(v)[i]) THEN i
         ELSE FirstThrow(v, st, i + 1)

\* position of the first useLocalStore call that throws in a render, 0 if none
ThrowPos(v, st) == FirstThrow(v, st, 1)

\* the useState following useLocalStore(key) is executed by a render of App
\* in which the hook at position tp throws (0: none does)
HookRuns(v, tp, key) ==
    /\ key \in KeySet(v)
    /\ tp = 0 \/ KeyPos(v, key) < tp

\* the active value useValueRotation returns for index ix
Format(ix) == IF ix.t = "number" THEN ValueAt(availableFormats, ix.n) ELSE Undefined

\* getFormattedColor reaches its default branch
FormatUnknown(f) == ~(f.t = "string" /\ \E i \in 1..Len(availableFormats) : availableFormats[i] = f.s)

\* colorTable has a cell, so a ColorCell is rendered and calls getFormattedColor
HasCells(cs, sh) == cs.t = "array" /\ sh.t = "array" /\ cs.a # <<>> /\ sh.a # <<>>

\* the exception a render of App throws when the hook at position tp throws
\* (0: none), with lists cs and sh and rotation index ix; "none" when the
\* render commits
RenderError(tp, cs, sh, ix) ==
    IF tp # 0 THEN "SyntaxError"
    ELSE IF HasCells(cs, sh) /\ FormatUnknown(Format(ix)) THEN "Unknown color format"
         ELSE "none"

\* the value App hands to the store() of key
StoredValueOf(key, cs, sh, bg, ix, sw) ==
    CASE key = "colors" -> cs
      [] key = "shades" -> sh
      [] key = "backgroundColor" -> bg
      [] key = "format" -> Format(ix)
      [] OTHER -> sw

\* store() with one `key` shared by every useLocalStore call: each write
\* lands under the key of the last call, `format`
WriteBackSharedKey(st, keys, cs, sh, bg, ix, sw) ==
    [k \in AllKeys |->
        IF keys # {} /\ k = "format"
        THEN Stored(SetItemText(
                StoredValueOf(CHOOSE key \in keys : TRUE, cs, sh, bg, ix, sw)))
        ELSE st[k]]

\* store() with useEffect(..., []): the write runs after the first commit only
WriteBackOnMountOnly(st, keys, cs, sh, bg, ix, sw) ==
    [k \in AllKeys |->
        IF k \in keys /\ Cardinality(keys) > 1
        THEN Stored(SetItemText(StoredValueOf(k, cs, sh, bg, ix, sw)))
        ELSE st[k]]

\* the useEffect of store(): localStorage.setItem(key, JSON.stringify(value))
WriteBack(st, keys, cs, sh, bg, ix, sw) ==
    [k \in AllKeys |->
        IF k \in keys THEN Stored(SetItemText(StoredValueOf(k, cs, sh, bg, ix, sw)))
        ELSE st[k]]

(***************************************************************************)
(* What localStorage may hold when the page is first opened: nothing, what *)
(* an earlier session wrote, or text that is not JSON.                     *)
(***************************************************************************)
\* text another page of the same origin stored under the key: not JSON
ForeignText == <<Tok("ident", "red", 0)>>

StoredColorsAtOpen ==
    {Absent, Stored(SetItemText(Arr(<<>>))), Stored(SetItemText(Arr(<<Str("red")>>))),
     Stored(ForeignText)}

StoredShadesAtOpen == {Absent, Stored(SetItemText(Arr(<<Num(50)>>)))}

StoredBackgroundAtOpen == {Absent, Stored(SetItemText(Str("lch(90 0 0)")))}

StoredFormatAtOpen == {Absent, Stored(SetItemText(Str("lch")))}

\* the observer of the format rotation: off, or the active formats rendered
\* since the last mount, one per rotate(), the oldest dropped beyond a cycle
NotObserving == [on |-> FALSE, seq |-> <<>>]

Observing(seq) == [on |-> TRUE, seq |-> seq]

Observe(seq, f) ==
    IF Len(seq) > Len(availableFormats) THEN Append(Tail(seq), f) ELSE Append(seq, f)

\* the last call on the useList instance driven with arbitrary arguments
\* (prev: the call made before it and the list that call found)
NoCall == [op |-> "none", target |-> 0, value |-> Undefined, before |-> <<>>,
           threw |-> "none", prev |-> [op |-> "none", before |-> <<>>]]

\* no call made yet of the functions driven outside App
NotShaded == [done |-> FALSE, color |-> Lch(0, 0, 0), s |-> 0, out |-> Lch(0, 0, 0)]

NotContrasted == [done |-> FALSE, background |-> Black, out |-> "none"]

InitApp ==
    /\ variant \in Variants
    /\ storage \in [AllKeys -> {Absent}
                      \cup StoredColorsAtOpen \cup StoredShadesAtOpen
                      \cup StoredBackgroundAtOpen \cup StoredFormatAtOpen]
    /\ storage["colors"] \in StoredColorsAtOpen
    /\ storage["shades"] \in StoredShadesAtOpen
    /\ storage["backgroundColor"] \in StoredBackgroundAtOpen
    /\ storage["format"] \in StoredFormatAtOpen
    /\ storage["swap-colors"] = Absent
    /\ phase = "closed"
    /\ error = "none"
    /\ colors = Unset
    /\ shades = Unset
    /\ backgroundColor = Unset
    /\ index = Unset
    /\ swapColors = Unset
    /\ colorTable = <<>>
    /\ pending = {}
    /\ listOps = 0
    /\ ulist = <<>>
    /\ ucall = NoCall
    /\ shaded = NotShaded
    /\ contrasting = NotContrasted

Init ==
    /\ InitApp
    /\ rotated = NotObserving

(***************************************************************************)
(* The first render of App and the commit that follows it                  *)
(***************************************************************************)
\* colors.list.map((color) => shades.list.map((shade) => getShadedColor(color, shade)))
ColorTable(cs, sh) ==
    [i \in 1..Len(cs.a) |-> [j \in 1..Len(sh.a) |-> ShadedColor(cs.a[i], sh.a[j])]]

\* useMemo(..., [colors.list]): the shade list left out of the dependencies
UseMemoColorsOnly(cached, changed, cs, sh) ==
    IF "colors" \in changed THEN ColorTable(cs, sh) ELSE cached

\* useMemo(..., [colors.list, shades.list]) on a render after the first:
\* the factory runs again when a setList has replaced one of the two arrays
UseMemo(cached, changed, cs, sh) ==
    IF changed \cap {"colors", "shades"} # {} THEN ColorTable(cs, sh) ELSE cached

Mount ==
    LET tp == ThrowPos(variant, storage)
        cs == IF HookRuns(variant, tp, "colors")
              THEN InitialColors(variant, storage) ELSE Unset
        sh == IF HookRuns(variant, tp, "shades")
              THEN InitialShades(storage) ELSE Unset
        bg == IF HookRuns(variant, tp, "backgroundColor")
              THEN InitialBackground(storage) ELSE Unset
        ix == IF HookRuns(variant, tp, "format")
              THEN Num(InitialIndex(variant, LocalStoreValue(storage, "format")))
              ELSE Unset
        sw == IF HookRuns(variant, tp, "swap-colors")
              THEN InitialSwap(storage) ELSE Unset
        err == RenderError(tp, cs, sh, ix)
    IN  /\ colors' = cs
        /\ shades' = sh
        /\ backgroundColor' = bg
        /\ index' = ix
        /\ swapColors' = sw
        \* the first render runs the factory; a tree that is not mounted
        \* keeps no memo
        /\ colorTable' = IF err = "none" THEN ColorTable(cs, sh) ELSE <<>>
        /\ error' = err
        /\ phase' = IF err = "none" THEN "running" ELSE "crashed"
        \* every store() effect is scheduled by the first commit
        /\ pending' = IF err = "none" THEN KeySet(variant) ELSE {}
        /\ rotated' = IF rotated.on
                      THEN Observing(IF err = "none" THEN <<Format(ix)>> ELSE <<>>)
                      ELSE rotated
        /\ UNCHANGED <<variant, storage, listOps, unitVars>>

\* the page is opened
Startup ==
    /\ phase = "closed"
    /\ Mount

\* the page is reloaded: the old tree and its scheduled effects are dropped
Reload ==
    /\ phase # "closed"
    /\ Mount

(***************************************************************************)
(* Effects, and the state updates of the event handlers                    *)
(***************************************************************************)
\* the tree is mounted and no effect is waiting: React runs the effects of
\* the first commit before it handles an event
Idle == phase = "running" /\ pending = {}

\* the effects of the first commit: every store() writes its value
FlushEffects ==
    /\ phase = "running"
    /\ pending # {}
    /\ storage' = WriteBack(storage, pending, colors, shades, backgroundColor,
                            index, swapColors)
    /\ pending' = {}
    /\ UNCHANGED <<variant, phase, error, colors, shades, backgroundColor, index,
                   swapColors, colorTable, listOps, rotated, unitVars>>

\* A state update made by an event handler: App renders again with the new
\* state and, unless the render throws, commits; the store() effects whose
\* value changed run with the commit of a click or change event.
Commit(cs, sh, bg, ix, sw, changed) ==
    LET err == RenderError(ThrowPos(variant, storage), cs, sh, ix)
    IN  /\ colors' = cs
        /\ shades' = sh
        /\ backgroundColor' = bg
        /\ index' = ix
        /\ swapColors' = sw
        /\ colorTable' = IF err = "none"
                         THEN UseMemo(colorTable, changed, cs, sh)
                         ELSE <<>>
        /\ error' = err
        /\ phase' = IF err = "none" THEN "running" ELSE "crashed"
        /\ storage' = IF err = "none"
                      THEN WriteBack(storage, changed, cs, sh, bg, ix, sw)
                      ELSE storage
        /\ UNCHANGED <<variant, pending, unitVars>>

\* <button onClick={() => colors.push("red")}>
ColorsPush ==
    /\ Idle
    /\ listOps < MaxListOps
    /\ listOps' = listOps + 1
    /\ Commit(Arr(ListPush(colors.a, PushedColor)), shades, backgroundColor, index,
              swapColors, {"colors"})
    /\ UNCHANGED rotated

\* <ColorInput onChange={(color) => colors.update(colorId, color.toString())}>
ColorsUpdate ==
    /\ Idle
    /\ listOps < MaxListOps
    /\ listOps' = listOps + 1
    /\ \E colorId \in 0..(Len(colors.a) - 1), c \in EditedColors :
          Commit(Arr(ListUpdate(colors.a, colorId, c)), shades, backgroundColor, index,
                 swapColors, {"colors"})
    /\ UNCHANGED rotated

\* <button onClick={() => colors.remove(colorId)}>
ColorsRemove ==
    /\ Idle
    /\ listOps < MaxListOps
    /\ listOps' = listOps + 1
    /\ \E colorId \in 0..(Len(colors.a) - 1) :
          Commit(Arr(ListRemove(colors.a, colorId)), shades, backgroundColor, index,
                 swapColors, {"colors"})
    /\ UNCHANGED rotated

\* <button onClick={() => shades.push(100)}>
ShadesPush ==
    /\ Idle
    /\ listOps < MaxListOps
    /\ listOps' = listOps + 1
    /\ Commit(colors, Arr(ListPush(shades.a, PushedShade)), backgroundColor, index,
              swapColors, {"shades"})
    /\ UNCHANGED rotated

\* <NumberInput onChange={(e) => shades.update(shadeId, e.target.valueAsNumber)}>
ShadesUpdate ==
    /\ Idle
    /\ listOps < MaxListOps
    /\ listOps' = listOps + 1
    /\ \E shadeId \in 0..(Len(shades.a) - 1), x \in ShadeInputs :
          Commit(colors, Arr(ListUpdate(shades.a, shadeId, x)), backgroundColor, index,
                 swapColors, {"shades"})
    /\ UNCHANGED rotated

\* <button onClick={() => shades.remove(shadeId)}>
ShadesRemove ==
    /\ Idle
    /\ listOps < MaxListOps
    /\ listOps' = listOps + 1
    /\ \E shadeId \in 0..(Len(shades.a) - 1) :
          Commit(colors, Arr(ListRemove(shades.a, shadeId)), backgroundColor, index,
                 swapColors, {"shades"})
    /\ UNCHANGED rotated

\* <ColorInput onChange={(color) => setBackgroundColor(color.toString())}>;
\* setting the state to the value it holds causes no render
SetBackground ==
    /\ Idle
    /\ \E c \in EditedBackgrounds :
          /\ c # backgroundColor
          /\ Commit(colors, shades, c, index, swapColors, {"backgroundColor"})
    /\ UNCHANGED <<listOps, rotated>>

\* <button onClick={() => rotateFormat()}>
RotateFormat ==
    /\ Idle
    /\ LET ix == Num(NextIndex(availableFormats, index.n))
       IN  /\ Commit(colors, shades, backgroundColor, ix, swapColors, {"format"})
           /\ rotated' = IF rotated.on /\ phase' = "running"
                         THEN Observing(Observe(rotated.seq, Format(ix)))
                         ELSE rotated
    /\ UNCHANGED listOps

\* <input type="checkbox" onChange={() => setSwapColors(!swapColors)}>
ToggleSwap ==
    /\ Idle
    /\ variant = "script"
    /\ Commit(colors, shades, backgroundColor, index,
              Bool(~Truthy(swapColors)), {"swap-colors"})
    /\ UNCHANGED <<listOps, rotated>>

Next ==
    \/ Startup
    \/ Reload
    \/ FlushEffects
    \/ ColorsPush
    \/ ColorsUpdate
    \/ ColorsRemove
    \/ ShadesPush
    \/ ShadesUpdate
    \/ ShadesRemove
    \/ SetBackground
    \/ RotateFormat
    \/ ToggleSwap

\* the application, with either revision of the script
Spec == Init /\ [][Next]_vars

(***************************************************************************)
(* The format rotation under observation: the application with its lists   *)
(* left alone and the active formats recorded                              *)
(***************************************************************************)
InitFormat ==
    /\ InitApp
    /\ rotated = Observing(<<>>)

NextFormat ==
    \/ Startup
    \/ Reload
    \/ FlushEffects
    \/ SetBackground
    \/ RotateFormat
    \/ ToggleSwap

SpecFormat == InitFormat /\ [][NextFormat]_vars

(***************************************************************************)
(* useList on its own: push, update and remove called with any target,     *)
(* in range or not                                                         *)
(***************************************************************************)
\* the items handed to push and update
ListValues == {Num(5), Num(25)}

\* the initialList handed to useList
InitialLists == {<<>>, <<Num(5), Num(25)>>}

\* the targets handed to update and remove: every position of the longest
\* list, one before the first and one past the last
Targets == (-1)..MaxLen

InitList ==
    /\ variant = "script"
    /\ storage = [k \in AllKeys |-> Absent]
    /\ phase = "closed"
    /\ error = "none"
    /\ colors = Unset
    /\ shades = Unset
    /\ backgroundColor = Unset
    /\ index = Unset
    /\ swapColors = Unset
    /\ colorTable = <<>>
    /\ pending = {}
    /\ listOps = 0
    /\ rotated = NotObserving
    /\ ulist \in InitialLists
    /\ ucall = NoCall
    /\ shaded = NotShaded
    /\ contrasting = NotContrasted

\* push(value)
UPush ==
    /\ Len(ulist) < MaxLen
    /\ \E value \in ListValues :
          /\ ulist' = ListPush(ulist, value)
          /\ ucall' = [op |-> "push", target |-> 0, value |-> value,
                       before |-> ulist, threw |-> "none",
                       prev |-> [op |-> ucall.op, before |-> ucall.before]]
    /\ UNCHANGED <<appVars, shaded, contrasting>>

\* update(target, value): map never throws
UUpdate ==
    /\ \E target \in Targets, value \in ListValues :
          /\ ulist' = ListUpdate(ulist, target, value)
          /\ ucall' = [op |-> "update", target |-> target, value |-> value,
                       before |-> ulist, threw |-> "none",
                       prev |-> [op |-> ucall.op, before |-> ucall.before]]
    /\ UNCHANGED <<appVars, shaded, contrasting>>

\* remove(target): filter never throws
URemove ==
    /\ \E target \in Targets :
          /\ ulist' = ListRemove(ulist, target)
          /\ ucall' = [op |-> "remove", target |-> target, value |-> Undefined,
                       before |-> ulist, threw |-> "none",
                       prev |-> [op |-> ucall.op, before |-> ucall.before]]
    /\ UNCHANGED <<appVars, shaded, contrasting>>

NextList ==
    \/ UPush
    \/ UUpdate
    \/ URemove

SpecList == InitList /\ [][NextList]_vars

(***************************************************************************)
(* getShadedColor on its own: one call per behaviour, on a base color and  *)
(* a percent of the sets below, in either revision                         *)
(***************************************************************************)
\* the first and the last of initialColors, the color ColorInput delivers,
\* "red", black and white, as LCH coordinates rounded to whole units
BaseColors ==
    {Lch(50, 92, 52), Lch(50, 0, 0), Lch(60, 92, 52), Lch(54, 107, 41),
     Lch(0, 0, 0), Lch(100, 0, 0)}

\* whole percents; min="0" and max="100" of the input do not stop a typed
\* value outside the range
Percents == (-ShadeOvershoot)..(100 + ShadeOvershoot)

InitShade ==
    /\ variant \in Variants
    /\ storage = [k \in AllKeys |-> Absent]
    /\ phase = "closed"
    /\ error = "none"
    /\ colors = Unset
    /\ shades = Unset
    /\ backgroundColor = Unset
    /\ index = Unset
    /\ swapColors = Unset
    /\ colorTable = <<>>
    /\ pending = {}
    /\ listOps = 0
    /\ rotated = NotObserving
    /\ ulist = <<>>
    /\ ucall = NoCall
    /\ \E color \in BaseColors, s \in Percents :
          shaded = [done |-> FALSE, color |-> color, s |-> s, out |-> Lch(0, 0, 0)]
    /\ contrasting = NotContrasted

\* getShadedColor(color, s)
CallGetShadedColor ==
    /\ ~shaded.done
    /\ shaded' = [shaded EXCEPT !.done = TRUE,
                                !.out = GetShadedColor(variant, shaded.color, shaded.s)]
    /\ UNCHANGED <<appVars, ulist, ucall, contrasting>>

NextShade == CallGetShadedColor

SpecShade == InitShade /\ [][NextShade]_vars

(***************************************************************************)
(* useContrastingColor on its own: one call per behaviour, on a background *)
(* of any relative luminance from black to white                           *)
(***************************************************************************)
Luminances == Black..White

InitContrast ==
    /\ variant \in Variants
    /\ storage = [k \in AllKeys |-> Absent]
    /\ phase = "closed"
    /\ error = "none"
    /\ colors = Unset
    /\ shades = Unset
    /\ backgroundColor = Unset
    /\ index = Unset
    /\ swapColors = Unset
    /\ colorTable = <<>>
    /\ pending = {}
    /\ listOps = 0
    /\ rotated = NotObserving
    /\ ulist = <<>>
    /\ ucall = NoCall
    /\ shaded = NotShaded
    /\ \E background \in Luminances :
          contrasting = [done |-> FALSE, background |-> background, out |-> "none"]

\* useContrastingColor(backgroundColor)
CallUseContrastingColor ==
    /\ ~contrasting.done
    /\ contrasting' = [contrasting EXCEPT
                          !.done = TRUE,
                          !.out = UseContrastingColor(contrasting.background)]
    /\ UNCHANGED <<appVars, ulist, ucall, shaded>>

NextContrast == CallUseContrastingColor

SpecContrast == InitContrast /\ [][NextContrast]_vars

(***************************************************************************)
(* Claims                                                                  *)
(***************************************************************************)

\* C1: whenever useValueRotation holds an index, the active format is one of
\* hex, rgb, hsl, lch, and no render ends in getFormattedColor's
\* 'Unknown color format' error.
FormatAlwaysKnown ==
    index.t = "number" =>
        /\ ~FormatUnknown(Format(index))
        /\ error # "Unknown color format"

\* C2: a first render that finds no `format` key and reaches useValueRotation
\* starts the rotation at index 0, with hex active.
DefaultIndexWhenAbsent ==
    [][(Mount /\ ~storage["format"].present /\ index'.t = "number")
          => (index' = Num(0) /\ Format(index') = Str("hex"))]_vars

\* C3: each rotate() makes the successor (modulo the number of values) of
\* the active value active; after as many rotations as there are values the
\* active value is the one they started from, and from hex they render rgb,
\* hsl, lch, hex in that order.
RotationCycles ==
    LET seq == rotated.seq
        n == Len(availableFormats)
    IN  rotated.on =>
          /\ \A i \in 1..(Len(seq) - 1) :
                seq[i + 1] = ValueAt(availableFormats,
                                     (IndexOf(availableFormats, seq[i]) + 1) % n)
          /\ Len(seq) = n + 1 => seq[n + 1] = seq[1]
          /\ (Len(seq) = n + 1 /\ seq[1] = Str("hex"))
                => seq = <<Str("hex"), Str("rgb"), Str("hsl"), Str("lch"), Str("hex")>>

\* C3 witness: four rotations from hex have been rendered.
RotationCycleSeen ==
    /\ rotated.on
    /\ phase = "running"
    /\ rotated.seq = <<Str("hex"), Str("rgb"), Str("hsl"), Str("lch"), Str("hex")>>

\* C4: text under a key that is not JSON never makes the tree fail to mount;
\* the state of that key takes its default.
MalformedTreatedAsAbsent ==
    \A k \in KeySet(variant) :
        LocalStoreThrows(storage, k) =>
            /\ phase # "crashed"
            /\ (phase = "running" /\ k = "colors") => colors = Arr(initialColors(variant))

\* C5: a reload after the write of `colors` has run loads the color list the
\* session held: same length, same order, same strings.
PaletteRoundTrip ==
    [][(Reload /\ phase = "running" /\ "colors" \notin pending) => colors' = colors]_vars

\* C5 witness: a list that was pushed to has been written and loaded again.
PaletteReloaded ==
    /\ phase = "running"
    /\ pending = KeySet(variant)
    /\ colors = Arr(Append(initialColors(variant), PushedColor))

\* C6: once no write is waiting, every key of the revision holds the
\* serialization of the value the session holds.
WriteBackCurrent ==
    Idle =>
        \A k \in KeySet(variant) :
            storage[k] = Stored(SetItemText(
                StoredValueOf(k, colors, shades, backgroundColor, index, swapColors)))

\* C6 witness: a shade was edited after the first writes and storage holds
\* the edited list.
WriteBackSeen ==
    /\ Idle
    /\ listOps > 0
    /\ shades = Arr(ListUpdate(initialShades, 0, NaN))
    /\ storage["shades"] = Stored(SetItemText(shades))

\* C7: a reload after the write of `format` has run restores the active
\* format the session had.
FormatSurvivesReload ==
    [][(Reload /\ Idle) => (index'.t = "number" /\ Format(index') = Format(index))]_vars

\* C8: a first render initialises colors, shades and backgroundColor to their
\* defaults whenever their key is absent, whatever the other keys hold.
AbsentKeyTakesDefault ==
    [][Mount =>
          /\ ~storage["colors"].present => colors' = Arr(initialColors(variant))
          /\ ~storage["shades"].present => shades' = Arr(initialShades)
          /\ ~storage["backgroundColor"].present => backgroundColor' = Str("white")]_vars

\* the last call on the useList instance was update or remove with a target
\* outside [0, length)
OutOfRangeCall ==
    /\ ucall.op \in {"update", "remove"}
    /\ ucall.target \notin 0..(Len(ucall.before) - 1)

MutatorsKeepOrder ==
    LET old == ucall.before
        n == Len(ucall.before)
        t == ucall.target
    IN  /\ (ucall.op = "update" /\ t \in 0..(n - 1)) =>
              /\ Len(ulist) = n
              /\ \A j \in 1..n : ulist[j] = IF j = t + 1 THEN ucall.value ELSE old[j]
        /\ (ucall.op = "remove" /\ t \in 0..(n - 1)) =>
              /\ Len(ulist) = n - 1
              /\ \A j \in 1..(n - 1) : ulist[j] = IF j <= t THEN old[j] ELSE old[j + 1]
        /\ ucall.op = "push" => ulist = old \o <<ucall.value>>

\* C10 witness: the middle item of a full list was removed.
MiddleRemoved ==
    /\ ucall.op = "remove"
    /\ ucall.target = 1
    /\ Len(ucall.before) = MaxLen
    /\ Len(ulist) = MaxLen - 1

\* C11: push(v) followed at once by remove of the last index of the list it
\* produced leaves the list that push(v) found, item for item.
PushThenRemoveLast ==
    (   /\ ucall.op = "remove"
        /\ ucall.prev.op = "push"
        /\ ucall.target = Len(ucall.before) - 1)
    => ulist = ucall.prev.before

\* C11 witness: a value was pushed on a list of two different items and the
\* last index of the result was removed next.
PushedThenRemoved ==
    /\ ucall.op = "remove"
    /\ ucall.prev.op = "push"
    /\ ucall.target = Len(ucall.before) - 1
    /\ ucall.prev.before = <<Num(5), Num(25)>>
    /\ ucall.before[Len(ucall.before)] = Num(5)

\* C12: while App is mounted, colorTable has one list per color, each with
\* one cell per shade, and the cell of color i and shade j is
\* getShadedColor of the current colors[i] and the current shades[j].
TableIsProjection ==
    phase = "running" =>
        /\ Len(colorTable) = Len(colors.a)
        /\ \A i \in 1..Len(colors.a) :
              /\ Len(colorTable[i]) = Len(shades.a)
              /\ \A j \in 1..Len(shades.a) :
                    colorTable[i][j] = ShadedColor(colors.a[i], shades.a[j])

\* C12 witness: the first shade was edited after the table had been built
\* and the first cell of every color is shaded with the edited value.
TableFollowsShades ==
    /\ phase = "running"
    /\ listOps = 1
    /\ Len(colors.a) = Len(initialColors(variant))
    /\ Len(shades.a) = Len(initialShades)
    /\ shades.a[1] = Num(0)
    /\ \A i \in 1..Len(colorTable) : colorTable[i][1].shade = Num(0)

\* C13: the chroma getShadedColor returns is the base chroma times
\* 1 - |percent - 50| / 50: at percent 50 it is the base chroma, at percent
\* 0 and at percent 100 it is 0, for every base color.
ChromaScaled ==
    shaded.done =>
        /\ 50 * shaded.out.c = 100 * shaded.color.c * (50 - Abs(shaded.s - 50))
        /\ shaded.s = 50 => shaded.out.c = 100 * shaded.color.c
        /\ shaded.s \in {0, 100} => shaded.out.c = 0

\* C13 witness: "red" shaded at 100 percent came out with chroma 0.
FullyDesaturated ==
    /\ shaded.done
    /\ shaded.color = Lch(54, 107, 41)
    /\ shaded.s = 100
    /\ shaded.out.c = 0

\* C14: for a base color of non-negative chroma and any percent, inside
\* [0, 100] or not, the chroma getShadedColor returns is not negative.
ChromaNeverNegative ==
    (shaded.done /\ shaded.color.c >= 0) => shaded.out.c >= 0

\* C15 as stated: the lightness getShadedColor returns is the percent,
\* whatever the lightness of the base color.
LightnessIsPercent ==
    shaded.done => shaded.out.l = 100 * shaded.s

\* C15: the lightness getShadedColor returns is the percent in part_000
\* for every base color, and in script.jsx exactly when the base color has
\* lightness 50 or the percent is 0.
LightnessIsPercentWhen ==
    shaded.done =>
        (shaded.out.l = 100 * shaded.s
            <=> (variant = "part000" \/ shaded.color.l = 50 \/ shaded.s = 0))

\* C15 witness: script.jsx shaded white at 50 percent and returned lightness 75.
LightnessBlended ==
    /\ shaded.done
    /\ variant = "script"
    /\ shaded.color = Lch(100, 0, 0)
    /\ shaded.s = 50
    /\ shaded.out.l = 7500

\* C16: useContrastingColor answers black exactly when the background's
\* contrast against black is above 4.5 and white otherwise, white at exactly
\* 4.5; a background of contrast 21 (white) gets black and one of contrast 1
\* (black) gets white.
BinaryChoiceAtThreshold ==
    contrasting.done =>
        LET againstBlack == Contrast(contrasting.background, Black)
        IN  /\ contrasting.out \in {"black", "white"}
            /\ contrasting.out = "black" <=> 10 * againstBlack.n > 45 * againstBlack.d
            /\ 10 * againstBlack.n = 45 * againstBlack.d => contrasting.out = "white"
            /\ againstBlack.n = 21 * againstBlack.d => contrasting.out = "black"
            /\ againstBlack.n = againstBlack.d => contrasting.out = "white"

\* C16 witness: a background whose contrast against black is exactly 4.5
\* (relative luminance 0.175) got white.
ExactlyAtThreshold ==
    /\ contrasting.done
    /\ contrasting.background = 175
    /\ 10 * Contrast(contrasting.background, Black).n
          = 45 * Contrast(contrasting.background, Black).d
    /\ contrasting.out = "white"

\* C19: the foreground useContrastingColor answers has a contrast of at
\* least 4.5 against the background it was asked for.
ChosenForegroundPassesAA ==
    contrasting.done =>
        LET foreground == IF contrasting.out = "black" THEN Black ELSE White
            chosen == Contrast(contrasting.background, foreground)
        IN  10 * chosen.n >= 45 * chosen.d

\* C19 witness: white was answered for a background on which white has a
\* contrast below 4.7, the lowest any answer has.
NarrowestMargin ==
    /\ contrasting.done
    /\ contrasting.out = "white"
    /\ 10 * Contrast(contrasting.background, White).n
          < 47 * Contrast(contrasting.background, White).d

\* C17: a reload after the write of `shades` has run loads the shade list
\* the session held: same length, the same number at every position, an
\* emptied input (NaN) included.
ShadesRoundTrip ==
    [][(Reload /\ phase = "running" /\ "shades" \notin pending) => shades' = shades]_vars

\* what a step leaves alone when only the entities in `own` may change:
\* the other pieces of state and what storage holds under their keys
Frame(own) ==
    /\ "colors" \notin own => colors' = colors
    /\ "shades" \notin own => shades' = shades
    /\ "backgroundColor" \notin own => backgroundColor' = backgroundColor
    /\ "format" \notin own => index' = index
    /\ \A k \in AllKeys \ own : storage'[k] = storage[k]

\* C18: push, update and remove on the color list leave the shade list, the
\* background color, the format and what is stored under every key but
\* `colors` as they were; likewise the shade-list actions for `shades`,
\* a background edit for `backgroundColor` and rotate() for `format`.
OnlyOwnStateChanges ==
    [][/\ (ColorsPush \/ ColorsUpdate \/ ColorsRemove) => Frame({"colors"})
       /\ (ShadesPush \/ ShadesUpdate \/ ShadesRemove) => Frame({"shades"})
       /\ SetBackground => Frame({"backgroundColor"})
       /\ RotateFormat => Frame({"format"})]_vars

\* C18 witness: "red" was pushed on the color list; the shade list is the
\* initial one and storage holds the pushed list under `colors` and the
\* initial shades under `shades`.
OnlyColorsWritten ==
    /\ Idle
    /\ listOps = 1
    /\ colors = Arr(Append(initialColors(variant), PushedColor))
    /\ shades = Arr(initialShades)
    /\ storage["colors"] = Stored(SetItemText(colors))
    /\ storage["shades"] = Stored(SetItemText(Arr(initialShades)))

====
